---- MODULE Spec2Model ----
(***************************************************************************)
(* Model of simple/simple_example.py: the FrontendData adapter (the        *)
(* throttled telemetry printer, the event printer, the connect and         *)
(* disconnect callbacks) and the foreground thread of main().              *)
(*                                                                         *)
(* Time is counted in ticks, TicksPerUnit ticks to one time-unit, so that  *)
(* the "+ 1" of the throttle is TicksPerUnit ticks and timestamps less     *)
(* than one unit apart exist.  Float payloads are dyadic rationals counted *)
(* in sixteenths, which a binary float holds exactly; a printed value is   *)
(* counted in hundredths, as ":.2f" prints it.                             *)
(***************************************************************************)
EXTENDS Integers, Sequences, FiniteSets

VARIABLES
    last_console_print, \* self._last_console_print, in ticks
    main_pc,            \* where the foreground thread of main() is
    shutdown_calls,     \* how many times frontend.shutdown() was called
    connects,           \* how many times _handle_tracker_connect ran
    requests_issued,    \* how many configuration requests were issued in all
    handler,            \* the callback the api invoked last
    et_data,            \* the record given to the last _handle_et_data call
    event,              \* <<event_type, timestamp, args>> of the last _handle_events call
    effects,            \* what the last callback did, in order: lines printed, requests issued
    unpacked,           \* the fields of et_data the last callback unpacked
    prev_last,          \* last_console_print when the last callback began
    accepted,           \* the last callback was a telemetry record that passed the throttle
    printed,            \* history: the most recent records that printed, [ts, cur],
                        \*          cur = no disconnect since
    min_received,       \* history: the least timestamp received before the last callback
    prev_outcome,       \* history: what the callback before the last one was and did
    accepted_ts         \* history: the timestamps accepted since the throttle was last reset

throttle == <<last_console_print>>
fg == <<main_pc, shutdown_calls>>
api == <<connects, requests_issued>>
call == <<handler, et_data, event, effects, unpacked, prev_last, accepted>>
hist == <<printed, min_received, prev_outcome, accepted_ts>>
vars == <<throttle, fg, api, call, hist>>

----------------------------------------------------------------------------
(* Bounds of the model *)

TicksPerUnit == 2
MaxTs == 5
MaxConnects == 1
PrintedWindow == 2

(* The rate _handle_tracker_connect asks for *)
StreamRate == 60

None == <<"None">>

Timestamps == 0..MaxTs

(* no timestamp: above every timestamp *)
NoTs == MaxTs + 1

(* adhawkapi.EyeMask *)
BINOCULAR == "BINOCULAR"
EyeMasks == {"LEFT", BINOCULAR}

(* adhawkapi.Events: the three the adapter knows, and two it does not *)
BLINK == "BLINK"
EYE_CLOSED == "EYE_CLOSED"
EYE_OPENED == "EYE_OPENED"
EventTypes == {BLINK, EYE_CLOSED, EYE_OPENED, "SACCADE", "TRACKLOSS_START"}

(* Payloads, in sixteenths *)
GazeValues == {<<1, -3, 6, 40>>, <<8, 2, -5, 17>>}
EyeCenterValues == {<<1, 2, 3, -4, -6, 7>>}
PupilValues == {<<50, 57>>}
QuaternionValues == {<<0, 3, -10, 16>>}

Opt(S) == S \cup {None}

EtRecords ==
    [timestamp : Timestamps, gaze : Opt(GazeValues), eye_center : Opt(EyeCenterValues),
     pupil_diameter : Opt(PupilValues), imu_quaternion : Opt(QuaternionValues),
     eye_mask : EyeMasks]

NoData == [timestamp |-> NoTs, gaze |-> None, eye_center |-> None,
           pupil_diameter |-> None, imu_quaternion |-> None, eye_mask |-> "LEFT"]

NoEvent == <<"None", NoTs, <<>>>>

(* The records of the specifications that follow the throttle through time: *)
(* gaze and eye center, present or not, under one eye or two                 *)
ThrottleRecords ==
    {d \in EtRecords : /\ d.gaze \in Opt({<<1, -3, 6, 40>>})
                       /\ d.pupil_diameter = None
                       /\ d.imu_quaternion = None}

(* The calls of _handle_events: a known event carries its duration or eye index *)
EventArgs == {<<3>>, <<3, 4>>}
EventCalls ==
    {c \in EventTypes \X {0, MaxTs} \X (EventArgs \cup {<<>>}) :
        c[1] \in {BLINK, EYE_CLOSED, EYE_OPENED} => c[3] # <<>>}
FewEventCalls == {<<BLINK, 0, <<3>>>>, <<"SACCADE", 0, <<>>>>}

----------------------------------------------------------------------------
(* Formatting: f'{x:.2f}' of the float x/16 is the nearest number of        *)
(* hundredths, a tie going to the even one (the value is exact in binary).  *)

Fmt2(x) ==
    LET n == 100 * x
        q == n \div 16
        r == n % 16
    IN  IF r < 8 THEN q
        ELSE IF r > 8 THEN q + 1
        ELSE IF q % 2 = 0 THEN q ELSE q + 1

print_line(line) == <<"print">> \o line

(* the throttle without its "+ 1" *)
ThrottledNoUnit(timestamp, last) == timestamp < last

(* if et_data.timestamp < self._last_console_print + 1: return *)
Throttled(timestamp, last) == timestamp < last + TicksPerUnit

(* the gaze line with yvec printed for x and xvec for y *)
GazeLineSwapped(gaze) ==
    print_line(<<"Gaze", Fmt2(gaze[2]), Fmt2(gaze[1]), Fmt2(gaze[3]), Fmt2(gaze[4])>>)

(* xvec, yvec, zvec, vergence = et_data.gaze; print(f'Gaze=...') *)
GazeLine(gaze) ==
    print_line(<<"Gaze", Fmt2(gaze[1]), Fmt2(gaze[2]), Fmt2(gaze[3]), Fmt2(gaze[4])>>)

(* rxvec, ryvec, rzvec, lxvec, lyvec, lzvec = et_data.eye_center; Left is printed first *)
EyeCenterLine(eye_center) ==
    print_line(<<"Eye center", Fmt2(eye_center[4]), Fmt2(eye_center[5]), Fmt2(eye_center[6]),
            Fmt2(eye_center[1]), Fmt2(eye_center[2]), Fmt2(eye_center[3])>>)

(* rdiameter, ldiameter = et_data.pupil_diameter; Left is printed first *)
PupilLine(pupil_diameter) ==
    print_line(<<"Pupil diameter", Fmt2(pupil_diameter[2]), Fmt2(pupil_diameter[1])>>)

(* x, y, z, w = et_data.imu_quaternion *)
ImuLine(q) ==
    print_line(<<"IMU", Fmt2(q[1]), Fmt2(q[2]), Fmt2(q[3]), Fmt2(q[4])>>)

(* the outer if alone, the eye mask not looked at *)
BinocularReadUngated(field, eye_mask) == field # None

(* the two nested ifs that guard eye_center, pupil_diameter and imu_quaternion *)
BinocularRead(field, eye_mask) == field # None /\ eye_mask = BINOCULAR

(* if et_data.gaze is not None *)
GazeRead(gaze) == gaze # None

(* The lines of a record that passed the throttle, in the order of the code *)
EtLines(d) ==
       (IF GazeRead(d.gaze) THEN <<GazeLine(d.gaze)>> ELSE <<>>)
    \o (IF BinocularRead(d.eye_center, d.eye_mask)
        THEN <<EyeCenterLine(d.eye_center)>> ELSE <<>>)
    \o (IF BinocularRead(d.pupil_diameter, d.eye_mask)
        THEN <<PupilLine(d.pupil_diameter)>> ELSE <<>>)
    \o (IF BinocularRead(d.imu_quaternion, d.eye_mask)
        THEN <<ImuLine(d.imu_quaternion)>> ELSE <<>>)

(* The fields of a record that passed the throttle which the code unpacks *)
EtUnpacked(d) ==
         (IF GazeRead(d.gaze) THEN {"gaze"} ELSE {})
    \cup (IF BinocularRead(d.eye_center, d.eye_mask) THEN {"eye_center"} ELSE {})
    \cup (IF BinocularRead(d.pupil_diameter, d.eye_mask) THEN {"pupil_diameter"} ELSE {})
    \cup (IF BinocularRead(d.imu_quaternion, d.eye_mask) THEN {"imu_quaternion"} ELSE {})

(* the assignment left out *)
NextLastKept(d, last) == last

(* the assignment made only by a record that prints *)
NextLastIfPrinted(d, last) == IF EtLines(d) = <<>> THEN last ELSE d.timestamp

(* self._last_console_print = et_data.timestamp, whatever the record then prints *)
NextLast(d, last) == d.timestamp

(* the third if testing EYE_CLOSED again *)
EventLinesNoOpen(event_type, timestamp, args) ==
       (IF event_type = BLINK
        THEN <<print_line(<<"Got blink", timestamp, args[1]>>)>> ELSE <<>>)
    \o (IF event_type = EYE_CLOSED
        THEN <<print_line(<<"Eye Close", timestamp, args[1]>>)>> ELSE <<>>)
    \o (IF event_type = EYE_CLOSED
        THEN <<print_line(<<"Eye Open", timestamp, args[1]>>)>> ELSE <<>>)

(* The three ifs of _handle_events; args[0] is the duration or the eye index *)
EventLines(event_type, timestamp, args) ==
       (IF event_type = BLINK
        THEN <<print_line(<<"Got blink", timestamp, args[1]>>)>> ELSE <<>>)
    \o (IF event_type = EYE_CLOSED
        THEN <<print_line(<<"Eye Close", timestamp, args[1]>>)>> ELSE <<>>)
    \o (IF event_type = EYE_OPENED
        THEN <<print_line(<<"Eye Open", timestamp, args[1]>>)>> ELSE <<>>)

(* the second set_event_control call left out *)
ConnectEffectsNoEyeCloseOpen ==
    << print_line(<<"Tracker connected">>),
       <<"set_et_stream_rate", StreamRate>>,
       <<"set_et_stream_control",
         <<"GAZE", "EYE_CENTER", "PUPIL_DIAMETER", "IMU_QUATERNION">>, TRUE>>,
       <<"set_event_control", "BLINK", 1>> >>

(* What _handle_tracker_connect does, in order *)
ConnectEffects ==
    << print_line(<<"Tracker connected">>),
       <<"set_et_stream_rate", StreamRate>>,
       <<"set_et_stream_control",
         <<"GAZE", "EYE_CENTER", "PUPIL_DIAMETER", "IMU_QUATERNION">>, TRUE>>,
       <<"set_event_control", "BLINK", 1>>,
       <<"set_event_control", "EYE_CLOSE_OPEN", 1>> >>

(* the throttle left as it was *)
DisconnectResetKept == last_console_print

(* What _handle_tracker_disconnect leaves in the throttle *)
DisconnectReset == 0

(* The requests among the effects of a callback *)
IsRequest(e) == e[1] # "print"
Requests(es) == SelectSeq(es, IsRequest)

----------------------------------------------------------------------------
(* The state once FrontendData.__init__ has returned *)
Init ==
    /\ last_console_print = 0
    /\ main_pc = "constructed"
    /\ shutdown_calls = 0
    /\ connects = 0
    /\ requests_issued = 0
    /\ handler = "none"
    /\ et_data = NoData
    /\ event = NoEvent
    /\ effects = <<>>
    /\ unpacked = {}
    /\ prev_last = 0
    /\ accepted = FALSE
    /\ printed = <<>>
    /\ min_received = NoTs
    /\ prev_outcome = "none"
    /\ accepted_ts = <<>>

(* the api delivers callbacks from start() until shutdown() or the end of the process *)
ApiRunning == main_pc \in {"constructed", "loop"}

(* FrontendData._handle_et_data *)
_handle_et_data(d) ==
    /\ ApiRunning
    /\ handler' = "et_data"
    /\ et_data' = d
    /\ event' = NoEvent
    /\ prev_last' = last_console_print
    /\ IF Throttled(d.timestamp, last_console_print)
       THEN /\ accepted' = FALSE
            /\ effects' = <<>>
            /\ unpacked' = {}
            /\ UNCHANGED last_console_print
       ELSE /\ accepted' = TRUE
            /\ last_console_print' = NextLast(d, last_console_print)
            /\ effects' = EtLines(d)
            /\ unpacked' = EtUnpacked(d)
    /\ UNCHANGED <<fg, api>>

(* FrontendData._handle_events *)
_handle_events(event_type, timestamp, args) ==
    /\ ApiRunning
    /\ handler' = "events"
    /\ et_data' = NoData
    /\ event' = <<event_type, timestamp, args>>
    /\ prev_last' = last_console_print
    /\ accepted' = FALSE
    /\ effects' = EventLines(event_type, timestamp, args)
    /\ unpacked' = {}
    /\ UNCHANGED <<throttle, fg, api>>

(* FrontendData._handle_tracker_connect *)
_handle_tracker_connect ==
    /\ ApiRunning
    /\ connects < MaxConnects
    /\ handler' = "connect"
    /\ et_data' = NoData
    /\ event' = NoEvent
    /\ prev_last' = last_console_print
    /\ accepted' = FALSE
    /\ effects' = ConnectEffects
    /\ unpacked' = {}
    /\ connects' = connects + 1
    /\ requests_issued' = requests_issued + Len(Requests(ConnectEffects))
    /\ UNCHANGED <<throttle, fg>>

(* FrontendData._handle_tracker_disconnect *)
_handle_tracker_disconnect ==
    /\ ApiRunning
    /\ handler' = "disconnect"
    /\ et_data' = NoData
    /\ event' = NoEvent
    /\ prev_last' = last_console_print
    /\ accepted' = FALSE
    /\ effects' = <<print_line(<<"Tracker disconnected">>)>>
    /\ unpacked' = {}
    /\ last_console_print' = DisconnectReset
    /\ UNCHANGED <<fg, api>>

(* callback=lambda *args: None: the api reports a request complete *)
completion_callback ==
    /\ ApiRunning
    /\ requests_issued > 0
    /\ UNCHANGED <<throttle, fg, api, call>>

(* main: frontend is bound and the try statement is entered *)
enter_try ==
    /\ main_pc = "constructed"
    /\ main_pc' = "loop"
    /\ UNCHANGED <<shutdown_calls, throttle, api, call>>

(* main: while True: time.sleep(1) *)
sleep ==
    /\ main_pc = "loop"
    /\ UNCHANGED <<throttle, fg, api, call>>

(* main: KeyboardInterrupt or SystemExit raised before the try statement: no handler *)
interrupt_before_try ==
    /\ main_pc = "constructed"
    /\ main_pc' = "killed"
    /\ UNCHANGED <<shutdown_calls, throttle, api, call>>

(* main: KeyboardInterrupt or SystemExit raised in the loop: frontend.shutdown() *)
interrupt_in_loop ==
    /\ main_pc = "loop"
    /\ main_pc' = "done"
    /\ shutdown_calls' = shutdown_calls + 1
    /\ UNCHANGED <<throttle, api, call>>

----------------------------------------------------------------------------
(* History variables, written beside the callbacks by the specifications    *)
(* that read them                                                           *)

MinTs(a, b) == IF a < b THEN a ELSE b

(* what the last callback was and did *)
Outcome ==
    IF handler # "et_data" THEN handler
    ELSE IF ~accepted THEN "discarded"
    ELSE IF effects = <<>> THEN "silent_accept"
    ELSE "printing_accept"

Window(s) == IF Len(s) > PrintedWindow THEN Tail(s) ELSE s

Stale(s) == [i \in 1..Len(s) |-> [s[i] EXCEPT !.cur = FALSE]]

NotePrinted ==
    printed' =
        IF handler' = "disconnect" THEN Stale(printed)
        ELSE IF handler' = "et_data" /\ effects' # <<>>
        THEN Window(Append(printed, [ts |-> et_data'.timestamp, cur |-> TRUE]))
        ELSE printed

NoteReceived ==
    min_received' =
        MinTs(min_received, IF handler = "et_data" THEN et_data.timestamp ELSE NoTs)

NoteOutcome == prev_outcome' = Outcome

NoteAccepted ==
    accepted_ts' =
        IF handler' = "disconnect" THEN <<>>
        ELSE IF accepted' THEN Append(accepted_ts, et_data'.timestamp)
        ELSE accepted_ts

----------------------------------------------------------------------------
(* The specifications.  The api's callback context and the foreground       *)
(* thread of main() interleave; a callback runs whole.                      *)

(* every record and event, no history *)
Next ==
    \/ \E d \in EtRecords : _handle_et_data(d) /\ UNCHANGED hist
    \/ \E c \in EventCalls : _handle_events(c[1], c[2], c[3]) /\ UNCHANGED hist
    \/ _handle_tracker_connect /\ UNCHANGED hist
    \/ _handle_tracker_disconnect /\ UNCHANGED hist
    \/ completion_callback /\ UNCHANGED hist
    \/ enter_try /\ UNCHANGED hist
    \/ sleep /\ UNCHANGED hist
    \/ interrupt_before_try /\ UNCHANGED hist
    \/ interrupt_in_loop /\ UNCHANGED hist

Spec == Init /\ [][Next]_vars

(* the records that print, across disconnects *)
HistPrinted == NotePrinted /\ UNCHANGED <<min_received, prev_outcome, accepted_ts>>

NextPrinted ==
    \/ \E d \in ThrottleRecords : _handle_et_data(d) /\ HistPrinted
    \/ \E c \in FewEventCalls : _handle_events(c[1], c[2], c[3]) /\ HistPrinted
    \/ _handle_tracker_connect /\ HistPrinted
    \/ _handle_tracker_disconnect /\ HistPrinted
    \/ completion_callback /\ UNCHANGED hist
    \/ enter_try /\ UNCHANGED hist
    \/ sleep /\ UNCHANGED hist
    \/ interrupt_before_try /\ UNCHANGED hist
    \/ interrupt_in_loop /\ UNCHANGED hist

SpecPrinted == Init /\ [][NextPrinted]_vars

(* each callback with the one before it, and the timestamps received *)
HistFollow == NoteReceived /\ NoteOutcome /\ UNCHANGED <<printed, accepted_ts>>

NextFollow ==
    \/ \E d \in ThrottleRecords : _handle_et_data(d) /\ HistFollow
    \/ \E c \in FewEventCalls : _handle_events(c[1], c[2], c[3]) /\ HistFollow
    \/ _handle_tracker_connect /\ HistFollow
    \/ _handle_tracker_disconnect /\ HistFollow
    \/ completion_callback /\ UNCHANGED hist
    \/ enter_try /\ UNCHANGED hist
    \/ sleep /\ UNCHANGED hist
    \/ interrupt_before_try /\ UNCHANGED hist
    \/ interrupt_in_loop /\ UNCHANGED hist

SpecFollow == Init /\ [][NextFollow]_vars

(* each callback with the one before it, and the timestamps accepted *)
HistAccepted == NoteAccepted /\ NoteOutcome /\ UNCHANGED <<printed, min_received>>

NextAccepted ==
    \/ \E d \in ThrottleRecords : _handle_et_data(d) /\ HistAccepted
    \/ \E c \in FewEventCalls : _handle_events(c[1], c[2], c[3]) /\ HistAccepted
    \/ _handle_tracker_connect /\ HistAccepted
    \/ _handle_tracker_disconnect /\ HistAccepted
    \/ completion_callback /\ UNCHANGED hist
    \/ enter_try /\ UNCHANGED hist
    \/ sleep /\ UNCHANGED hist
    \/ interrupt_before_try /\ UNCHANGED hist
    \/ interrupt_in_loop /\ UNCHANGED hist

SpecAccepted == Init /\ [][NextAccepted]_vars

----------------------------------------------------------------------------
(* Properties *)

IsLine(e, kind) == e[1] = "print" /\ e[2] = kind
LineCount(kind) == Cardinality({i \in 1..Len(effects) : IsLine(effects[i], kind)})
KnownEvents == {BLINK, EYE_CLOSED, EYE_OPENED}

(* C1: a telemetry record whose timestamp is less than last_printed + 1 *)
(* produces no output line, whatever fields it carries, and leaves the    *)
(* last-printed timestamp unchanged.                                      *)
C1_ThrottledRecordIsSilent ==
    (handler = "et_data" /\ et_data.timestamp < prev_last + TicksPerUnit)
        => (effects = <<>> /\ unpacked = {} /\ last_console_print = prev_last)

C1_Witness ==
    /\ handler = "et_data"
    /\ prev_last > 0
    /\ et_data.timestamp < prev_last + TicksPerUnit
    /\ et_data.timestamp >= prev_last
    /\ et_data.gaze # None
    /\ et_data.eye_center # None
    /\ et_data.pupil_diameter # None
    /\ et_data.imu_quaternion # None
    /\ et_data.eye_mask = BINOCULAR
    /\ effects = <<>>

(* C2: a telemetry record with timestamp >= last_printed + 1 and a gaze   *)
(* field prints exactly one Gaze line, as its first line, each value the  *)
(* record's own to two decimal places, and sets the last-printed          *)
(* timestamp to the record's timestamp.                                   *)
C2_AcceptedGazePrintsOnce ==
    (handler = "et_data" /\ et_data.timestamp >= prev_last + TicksPerUnit /\ et_data.gaze # None)
        => /\ LineCount("Gaze") = 1
           /\ IsLine(effects[1], "Gaze")
           /\ Len(effects[1]) = 6
           /\ \A i \in 1..4 :
                LET d == 100 * et_data.gaze[i] - 16 * effects[1][i + 2]
                IN  -8 <= d /\ d <= 8
           /\ last_console_print = et_data.timestamp

C2_Witness ==
    /\ handler = "et_data"
    /\ prev_last > 0
    /\ et_data.timestamp >= prev_last + TicksPerUnit
    /\ et_data.gaze # None
    /\ Len(effects) = 4
    /\ IsLine(effects[1], "Gaze")
    /\ last_console_print = et_data.timestamp

(* C3, as claimed: any two telemetry records that print, over any sequence *)
(* of callbacks, have timestamps at least 1 time-unit apart.               *)
C3_AnyTwoPrintedOneUnitApart ==
    \A i, j \in 1..Len(printed) :
        i < j => \/ printed[j].ts - printed[i].ts >= TicksPerUnit
                 \/ printed[i].ts - printed[j].ts >= TicksPerUnit

(* C3, amended: any two telemetry records that print with no OnDisconnect *)
(* after the first of them have timestamps at least 1 time-unit apart,    *)
(* the later record having the later timestamp.                           *)
C3_PrintedSinceDisconnectOneUnitApart ==
    \A i, j \in 1..Len(printed) :
        (i < j /\ printed[i].cur) => printed[j].ts - printed[i].ts >= TicksPerUnit

C3_Witness ==
    /\ Len(printed) >= 2
    /\ printed[Len(printed) - 1].cur
    /\ printed[Len(printed)].cur
    /\ handler = "et_data"
    /\ effects # <<>>

(* C4: a record whose eye mask is not BINOCULAR prints no Eye center, no  *)
(* Pupil diameter and no IMU line, whatever fields are present; the Gaze  *)
(* line does not depend on the mask; a binocular-only field is unpacked   *)
(* only when it is present and the mask is BINOCULAR.                     *)
C4_BinocularGating ==
    handler = "et_data"
        => /\ et_data.eye_mask # BINOCULAR
                => /\ LineCount("Eye center") = 0
                   /\ LineCount("Pupil diameter") = 0
                   /\ LineCount("IMU") = 0
           /\ LineCount("Gaze") = (IF accepted /\ et_data.gaze # None THEN 1 ELSE 0)
           /\ "eye_center" \in unpacked
                => (et_data.eye_center # None /\ et_data.eye_mask = BINOCULAR)
           /\ "pupil_diameter" \in unpacked
                => (et_data.pupil_diameter # None /\ et_data.eye_mask = BINOCULAR)
           /\ "imu_quaternion" \in unpacked
                => (et_data.imu_quaternion # None /\ et_data.eye_mask = BINOCULAR)

C4_Witness ==
    /\ handler = "et_data"
    /\ accepted
    /\ et_data.eye_mask # BINOCULAR
    /\ et_data.gaze # None
    /\ et_data.eye_center # None
    /\ et_data.pupil_diameter # None
    /\ et_data.imu_quaternion # None
    /\ Len(effects) = 1
    /\ unpacked = {"gaze"}

(* C5, as claimed: a record with a gaze field that follows OnDisconnect   *)
(* and whose timestamp is earlier than that of every record received      *)
(* before it produces output.                                             *)
C5_EarlierRecordAfterDisconnectPrints ==
    (/\ handler = "et_data"
     /\ prev_outcome = "disconnect"
     /\ et_data.gaze # None
     /\ min_received # NoTs
     /\ et_data.timestamp < min_received)
        => effects # <<>>

(* C5, amended: such a record produces output when its timestamp is at    *)
(* least 1 time-unit, the throttle having been reset to 0.                *)
C5_EarlierRecordAfterDisconnectPrintsFromOneUnit ==
    (/\ handler = "et_data"
     /\ prev_outcome = "disconnect"
     /\ et_data.gaze # None
     /\ min_received # NoTs
     /\ et_data.timestamp < min_received
     /\ et_data.timestamp >= TicksPerUnit)
        => (LineCount("Gaze") = 1 /\ last_console_print = et_data.timestamp)

C5_Witness ==
    /\ handler = "et_data"
    /\ prev_outcome = "disconnect"
    /\ et_data.gaze # None
    /\ min_received # NoTs
    /\ et_data.timestamp < min_received
    /\ et_data.timestamp >= TicksPerUnit
    /\ LineCount("Gaze") = 1

(* C6: OnConnect prints 'Tracker connected', then issues the rate request *)
(* (60), the field request (the four groups), the blink and the eye       *)
(* close/open event requests, in this order and in the one step, and      *)
(* nothing else; it leaves the last-printed timestamp alone; no request   *)
(* is issued before the first OnConnect.                                  *)
C6_ConnectConfigures ==
    /\ handler = "connect"
        => /\ Len(effects) = 5
           /\ effects[1] = <<"print", "Tracker connected">>
           /\ effects[2] = <<"set_et_stream_rate", 60>>
           /\ effects[3] = <<"set_et_stream_control",
                             <<"GAZE", "EYE_CENTER", "PUPIL_DIAMETER", "IMU_QUATERNION">>,
                             TRUE>>
           /\ effects[4] = <<"set_event_control", "BLINK", 1>>
           /\ effects[5] = <<"set_event_control", "EYE_CLOSE_OPEN", 1>>
           /\ last_console_print = prev_last
    /\ handler # "connect" => \A i \in 1..Len(effects) : effects[i][1] = "print"
    /\ requests_issued = 4 * connects

C6_Witness ==
    /\ handler = "connect"
    /\ connects = 1
    /\ requests_issued = 4
    /\ last_console_print > 0

(* C7: OnEvent prints exactly one line, of the kind of its type, for      *)
(* BLINK, EYE_CLOSED and EYE_OPENED and nothing for any other type; it is *)
(* not throttled and leaves the last-printed timestamp alone.             *)
C7_EventDispatch ==
    handler = "events"
        => /\ event[1] = BLINK
                => effects = <<<<"print", "Got blink", event[2], event[3][1]>>>>
           /\ event[1] = EYE_CLOSED
                => effects = <<<<"print", "Eye Close", event[2], event[3][1]>>>>
           /\ event[1] = EYE_OPENED
                => effects = <<<<"print", "Eye Open", event[2], event[3][1]>>>>
           /\ event[1] \notin KnownEvents => effects = <<>>
           /\ last_console_print = prev_last

C7_Witness ==
    /\ handler = "events"
    /\ event[1] = EYE_OPENED
    /\ last_console_print > 0
    /\ event[2] < last_console_print + TicksPerUnit
    /\ Len(effects) = 1

(* C9, as claimed: an interrupt at any point after construction has        *)
(* started the connection has Shutdown() called exactly once before the   *)
(* process ends; Shutdown() is never called without an interrupt and      *)
(* never twice.                                                           *)
C9_InterruptShutsDownOnce ==
    /\ main_pc \in {"killed", "done"} => shutdown_calls = 1
    /\ main_pc \in {"constructed", "loop"} => shutdown_calls = 0

(* C10: the throttle window is consumed by acceptance, not by printing: a *)
(* record with timestamp >= last_printed + 1 sets the last-printed        *)
(* timestamp even when it prints nothing, and a record with a gaze field  *)
(* less than 1 time-unit after it is discarded; the last-printed          *)
(* timestamp is 0 after Init and OnDisconnect and otherwise the timestamp *)
(* of the most recently accepted record, and each acceptance raises it by *)
(* at least 1.                                                            *)
C10_WindowConsumedByAcceptance ==
    /\ (handler = "et_data" /\ et_data.timestamp >= prev_last + TicksPerUnit)
            => (accepted /\ last_console_print = et_data.timestamp)
    /\ (/\ handler = "et_data"
        /\ prev_outcome = "silent_accept"
        /\ et_data.gaze # None
        /\ et_data.timestamp < prev_last + TicksPerUnit)
            => (effects = <<>> /\ last_console_print = prev_last)
    /\ last_console_print =
            (IF accepted_ts = <<>> THEN 0 ELSE accepted_ts[Len(accepted_ts)])
    /\ \A i \in 1..Len(accepted_ts) :
            accepted_ts[i] >= (IF i = 1 THEN 0 ELSE accepted_ts[i - 1]) + TicksPerUnit

C10_Witness ==
    /\ handler = "et_data"
    /\ prev_outcome = "silent_accept"
    /\ et_data.gaze # None
    /\ et_data.timestamp > prev_last
    /\ et_data.timestamp < prev_last + TicksPerUnit
    /\ effects = <<>>
    /\ Len(accepted_ts) >= 2
    /\ last_console_print = accepted_ts[Len(accepted_ts)]

====
